---- MODULE Spec2Model ----
(***************************************************************************)
(* Model of watchdog/observers/inotify.py: the Inotify watch session (one  *)
(* inotify descriptor, the path -> watch descriptor table), the record     *)
(* codec _parse_event_buffer and the InotifyEmitter built on them, run     *)
(* against a small model of the kernel side of inotify(7) and of the       *)
(* watched directory tree.                                                 *)
(***************************************************************************)
EXTENDS Integers, Sequences, FiniteSets, TLC

(* ------------------------------- bounds -------------------------------- *)
\* Largest watch descriptor the kernel hands out before inotify_add_watch
\* fails with ENOSPC.
MaxWd == 3
\* Capacity of the kernel's event queue (max_queued_events).
MaxQueue == 2
\* Number of changes made to the directory tree while it is watched.
MaxFsOps == 2
\* Longest sequence of synthetic records given to the codec.
MaxRecords == 2

(* ------------------------- event mask constants ------------------------ *)
IN_MOVED_FROM == 64
IN_MOVED_TO == 128
IN_CREATE == 256
IN_DELETE == 512
IN_DELETE_SELF == 1024
IN_Q_OVERFLOW == 16384
IN_IGNORED == 32768
IN_ISDIR == 1073741824

\* mask & flag, for a single-bit flag (InotifyEvent.is_* properties).
HasFlag(mask, flag) == (mask \div flag) % 2 = 1

(* -------------------------------- paths -------------------------------- *)
\* A file name is its byte string; a path is the sequence of its names.
NameR == <<114>>
NameA == <<97>>
NameB == <<98>>
NameC == <<99>>
Dot == <<46>>
Root == <<NameR>>
PathA == <<NameR, NameA>>
PathB == <<NameR, NameB>>
PathC == <<NameR, NameA, NameC>>
Paths == {Root, PathA, PathB, PathC}
\* os.listdir order of the names of a directory.
NameOrder == <<NameA, NameB, NameC>>
Kinds == {"none", "dir", "file", "link"}

Parent(p) == SubSeq(p, 1, Len(p) - 1)
BaseName(p) == p[Len(p)]

\* watchdog.utils.absolute_path: the normalised absolute form of a path
\* (here: "." components dropped).
absolute_path(p) == SelectSeq(p, LAMBDA c : c # Dot)
\* The spellings a caller may pass for the paths of the tree.
RawPaths == Paths \cup {Append(p, Dot) : p \in Paths}

VARIABLES fs, session, fdState, wd_for_path, is_recursive, is_non_blocking,
          kwatch, nextWd, nextCookie, fsOps, kq, outq, lastOp, error,
          lock, pc

vars == <<fs, session, fdState, wd_for_path, is_recursive, is_non_blocking,
          kwatch, nextWd, nextCookie, fsOps, kq, outq, lastOp, error,
          lock, pc>>

\* The threads that share a session: the one that controls it and the
\* emitter's own.
Threads == {"controller", "emitter"}
\* A thread outside every method of the session.
Idle == [at |-> "idle", arg |-> <<>>, calls |-> <<>>]
\* Some thread is inside the os.read of read_events.
ReaderInside == \E t \in Threads : pc[t].at = "read"

(* ----------------------------- file system ----------------------------- *)
\* os.path.isdir follows symbolic links; os.path.islink does not.
isdir(f, p) == p \in Paths /\ f[p] \in {"dir", "link"}
islink(f, p) == p \in Paths /\ f[p] = "link"
exists(f, p) == p \in Paths /\ f[p] # "none"
\* An entry exists only inside a directory (a real one, or the one a link
\* points to).
ValidTree(f) ==
    /\ f[Root] \in {"dir", "file"}
    /\ \A p \in Paths \ {Root} : f[p] # "none" => isdir(f, Parent(p))
\* The trees a session is constructed on: PathA may be a symbolic link to a
\* directory, PathB a file.
Trees ==
    {f \in [Paths -> Kinds] :
        /\ ValidTree(f)
        /\ f[PathA] # "file" /\ f[PathB] # "link" /\ f[PathC] \in {"none", "dir"}}

listdir(f, top) == SelectSeq(NameOrder, LAMBDA n : exists(f, Append(top, n)))

RECURSIVE Concat(_)
Concat(ss) == IF ss = <<>> THEN <<>> ELSE Head(ss) \o Concat(Tail(ss))

\* os.walk mutated: descends into symbolic links as well (followlinks=True).
RECURSIVE walk_followlinks(_, _)
walk_followlinks(f, top) ==
    LET names == listdir(f, top)
        dirs == SelectSeq(names, LAMBDA n : isdir(f, Append(top, n)))
        nondirs == SelectSeq(names, LAMBDA n : ~isdir(f, Append(top, n)))
    IN  <<[root |-> top, dirnames |-> dirs, filenames |-> nondirs]>>
        \o Concat([i \in 1..Len(dirs) |->
                      walk_followlinks(f, Append(top, dirs[i]))])

\* os.walk(top): top-down, followlinks=False; one (root, dirnames, filenames)
\* triple per directory visited.
RECURSIVE walk(_, _)
walk(f, top) ==
    LET names == listdir(f, top)
        dirs == SelectSeq(names, LAMBDA n : isdir(f, Append(top, n)))
        nondirs == SelectSeq(names, LAMBDA n : ~isdir(f, Append(top, n)))
        sub == SelectSeq(dirs, LAMBDA n : ~islink(f, Append(top, n)))
    IN  <<[root |-> top, dirnames |-> dirs, filenames |-> nondirs]>>
        \o Concat([i \in 1..Len(sub) |-> walk(f, Append(top, sub[i]))])

(* -------------------------------- codec -------------------------------- *)
HeaderSize == 16

Bytes4(v) == <<v % 256, (v \div 256) % 256, (v \div 65536) % 256,
               (v \div 16777216) % 256>>
\* struct 'I' and 'i' fields, little endian.
UnpackU32(b, i) ==
    b[i + 1] + 256 * b[i + 2] + 65536 * b[i + 3] + 16777216 * b[i + 4]
UnpackS32(b, i) ==
    b[i + 1] + 256 * b[i + 2] + 65536 * b[i + 3]
    + 16777216 * (IF b[i + 4] >= 128 THEN b[i + 4] - 256 ELSE b[i + 4])

RoundUp(n, a) == ((n + a - 1) \div a) * a
Zeros(n) == [i \in 1..n |-> 0]
\* struct inotify_event as the kernel writes it: the name is NUL terminated
\* and padded to a multiple of the header size; len is 0 for an empty name.
NameField(name) ==
    IF name = <<>> THEN <<>>
    ELSE name \o Zeros(RoundUp(Len(name) + 1, HeaderSize) - Len(name))
EncodeRecord(r) ==
    Bytes4(r.wd) \o Bytes4(r.mask) \o Bytes4(r.cookie)
    \o Bytes4(Len(NameField(r.name))) \o NameField(r.name)
EncodeBuffer(rs) == Concat([i \in 1..Len(rs) |-> EncodeRecord(rs[i])])

RECURSIVE rstrip0(_)
rstrip0(s) ==
    IF s # <<>> /\ s[Len(s)] = 0 THEN rstrip0(SubSeq(s, 1, Len(s) - 1)) ELSE s
Min(a, b) == IF a < b THEN a ELSE b

\* The loop of _parse_event_buffer from offset i.
RECURSIVE parse_from(_, _)
parse_from(b, i) ==
    IF i + HeaderSize < Len(b)
    THEN LET length == UnpackU32(b, i + 12)
             name == rstrip0(SubSeq(b, i + HeaderSize + 1,
                                    Min(i + HeaderSize + length, Len(b))))
         IN  <<[wd |-> UnpackS32(b, i), mask |-> UnpackU32(b, i + 4),
                cookie |-> UnpackU32(b, i + 8), name |-> name]>>
             \o parse_from(b, i + HeaderSize + length)
    ELSE <<>>

parse_event_buffer(b) == parse_from(b, 0)

\* The offset i at which the loop of _parse_event_buffer ends.
RECURSIVE parse_end(_, _)
parse_end(b, i) ==
    IF i + HeaderSize < Len(b)
    THEN parse_end(b, i + HeaderSize + UnpackU32(b, i + 12))
    ELSE i

(* ----------------------------- InotifyEvent ---------------------------- *)
\* InotifyEvent.key
key(e) == <<e.wd, e.mask, e.cookie, e.name>>
\* InotifyEvent.__eq__
eq(a, b) == key(a) = key(b)
\* InotifyEvent.__ne__
ne(a, b) == key(a) = key(b)

(* -------------------------- tables and queues -------------------------- *)
EmptyTable == [q \in {} |-> 0]
Put(t, k, v) == [q \in DOMAIN t \cup {k} |-> IF q = k THEN v ELSE t[q]]
Drop(t, k) == [q \in DOMAIN t \ {k} |-> t[q]]
Range(t) == {t[k] : k \in DOMAIN t}
Perms(S) ==
    {s \in [1..Cardinality(S) -> S] :
        \A i, j \in 1..Cardinality(S) : i # j => s[i] # s[j]}

Record(wd, mask, cookie, name) ==
    [wd |-> wd, mask |-> mask, cookie |-> cookie, name |-> name]
Overflow == Record(-1, IN_Q_OVERFLOW, 0, <<>>)
\* The kernel queues an event; a full queue takes one overflow marker and
\* drops what follows.
Enqueue(q, e) ==
    IF Len(q) < MaxQueue THEN Append(q, e)
    ELSE IF q[Len(q)].mask = IN_Q_OVERFLOW THEN q
    ELSE Append(q, Overflow)
\* Events for the watch on directory d, if there is one.
Notify(q, kw, d, mask, cookie, name) ==
    IF d \in DOMAIN kw THEN Enqueue(q, Record(kw[d], mask, cookie, name)) ELSE q

(* --------------------------- native binding ---------------------------- *)
\* errno values the native calls fail with.
ENOENT == 2
EBADF == 9
EAGAIN == 11
ENOMEM == 12
EINVAL == 22
EMFILE == 24
ENOSPC == 28
\* char *strerror(int errnum)
strerror(errnum) ==
    CASE errnum = ENOENT -> "No such file or directory"
      [] errnum = EBADF -> "Bad file descriptor"
      [] errnum = EAGAIN -> "Resource temporarily unavailable"
      [] errnum = ENOMEM -> "Cannot allocate memory"
      [] errnum = EINVAL -> "Invalid argument"
      [] errnum = EMFILE -> "Too many open files"
      [] errnum = ENOSPC -> "No space left on device"
      [] OTHER -> "Success"

\* The part of the state a session method works on: the descriptor, the
\* table, the kernel's watches, counter and queue, the value the last native
\* call returned and the errno it left, the native calls made, the
\* exception raised ("" for none) and its message.
Cur ==
    [fd |-> fdState, t |-> wd_for_path, kw |-> kwatch, nw |-> nextWd,
     q |-> kq, ret |-> 0, errno |-> 0, calls |-> <<>>, raised |-> "",
     msg |-> ""]
\* A native call as made: its arguments, the value returned and, for a
\* failed call, the errno it set (0 otherwise).
Call(fn, path, wd, ret, errno) ==
    [fn |-> fn, path |-> path, wd |-> wd, ret |-> ret,
     errno |-> IF ret = -1 THEN errno ELSE 0]
\* int inotify_init(void) / inotify_init1(flags): the descriptor, or -1
\* (EMFILE).
inotify_init(S, fails) ==
    IF fails THEN [S EXCEPT !.ret = -1, !.errno = EMFILE]
    ELSE [S EXCEPT !.fd = "open", !.ret = 0]
\* int inotify_add_watch(fd, pathname, mask): the watch descriptor, or -1
\* (EBADF, ENOENT, ENOSPC, or `fails`: any other reason of the kernel's).
\* Watching a watched path again returns its descriptor.
inotify_add_watch(S, path, fails) ==
    IF S.fd # "open" THEN [S EXCEPT !.ret = -1, !.errno = EBADF]
    ELSE IF fails THEN [S EXCEPT !.ret = -1, !.errno = ENOMEM]
    ELSE IF ~exists(fs, path) THEN [S EXCEPT !.ret = -1, !.errno = ENOENT]
    ELSE IF path \in DOMAIN S.kw THEN [S EXCEPT !.ret = S.kw[path]]
    ELSE IF S.nw > MaxWd THEN [S EXCEPT !.ret = -1, !.errno = ENOSPC]
    ELSE [S EXCEPT !.kw = Put(S.kw, path, S.nw), !.nw = S.nw + 1,
                   !.ret = S.nw]

\* int inotify_rm_watch(fd, wd): 0, or -1 (EINVAL for a descriptor that is
\* no watch of the instance, EBADF for a closed fd). A removed watch is
\* reported with IN_IGNORED.
inotify_rm_watch(S, wd) ==
    IF S.fd = "open" /\ wd \in Range(S.kw)
    THEN LET p == CHOOSE p \in DOMAIN S.kw : S.kw[p] = wd
         IN  [S EXCEPT !.kw = Drop(S.kw, p),
                       !.q = Enqueue(S.q, Record(wd, IN_IGNORED, 0, <<>>)),
                       !.ret = 0]
    ELSE [S EXCEPT !.ret = -1,
                   !.errno = IF S.fd = "open" THEN EINVAL ELSE EBADF]

\* os.close(fd): the kernel drops the instance with its watches and queue
\* (a read in progress still returns what was queued for it); closing a
\* closed descriptor raises OSError (EBADF).
os_close(S) ==
    IF S.fd = "open"
    THEN [S EXCEPT !.fd = "closed", !.kw = EmptyTable,
                   !.q = IF ReaderInside THEN S.q ELSE <<>>,
                   !.calls = Append(S.calls, Call("os.close", <<>>, 0, 0, 0))]
    ELSE [S EXCEPT !.raised = "OSError", !.msg = strerror(EBADF),
                   !.calls = Append(S.calls,
                                    Call("os.close", <<>>, 0, -1, EBADF))]

(* ------------------------------- Inotify ------------------------------- *)
\* Inotify._raise_error mutated: the message of errno 0, as if the bindings
\* did not keep errno.
raise_error_no_errno(S) == [S EXCEPT !.raised = "OSError", !.msg = strerror(0)]

\* Inotify._raise_error: raise OSError(strerror(get_errno()))
raise_error(S) == [S EXCEPT !.raised = "OSError", !.msg = strerror(S.errno)]

\* Inotify._add_watch(path, mask)
add_watch_unlocked(S, path, fails) ==
    LET N == inotify_add_watch(S, path, fails)
        L == [N EXCEPT !.calls =
                 Append(S.calls,
                        Call("inotify_add_watch", path, 0, N.ret, N.errno))]
    IN  IF N.ret = -1 THEN raise_error(L)
        ELSE [L EXCEPT !.t = Put(L.t, path, N.ret)]

\* The paths _add_dir_watch visits, in order: the root, then every dirname
\* of every triple of the walk.
WalkTargets(path) ==
    LET w == walk(fs, path)
    IN  Concat([i \in 1..Len(w) |->
                  [j \in 1..Len(w[i].dirnames) |->
                      absolute_path(Append(w[i].root, w[i].dirnames[j]))]])

RECURSIVE AddEach(_, _, _, _)
AddEach(S, targets, i, failAt) ==
    IF i > Len(targets) \/ S.raised # "" THEN S
    ELSE AddEach(add_watch_unlocked(S, targets[i], i = failAt),
                 targets, i + 1, failAt)

\* Inotify._add_dir_watch mutated: no os.path.isdir test.
add_dir_watch_unchecked(S, path, recursive, failAt) ==
    AddEach(S, <<path>> \o (IF recursive THEN WalkTargets(path) ELSE <<>>),
            1, failAt)

\* Inotify._add_dir_watch(path, recursive, mask); the failAt-th native call
\* fails for a reason of the kernel's (0: none does).
add_dir_watch(S, path, recursive, failAt) ==
    IF ~isdir(fs, path)
    THEN [S EXCEPT !.raised = "OSError", !.msg = "Path is not a directory"]
    ELSE AddEach(S, <<path>> \o (IF recursive THEN WalkTargets(path) ELSE <<>>),
                 1, failAt)

\* Inotify._remove_watch mutated: the native call first, the table after.
remove_watch_native_first(S, path) ==
    IF path \notin DOMAIN S.t THEN [S EXCEPT !.raised = "KeyError"]
    ELSE LET N == inotify_rm_watch(S, S.t[path])
             L == [N EXCEPT !.calls =
                     Append(S.calls, Call("inotify_rm_watch", <<>>, S.t[path],
                                          N.ret, N.errno))]
         IN  IF N.ret = -1 THEN raise_error(L)
             ELSE [L EXCEPT !.t = Drop(L.t, path)]

\* Inotify._remove_watch(path): pop the entry (KeyError if absent), then
\* the native removal.
remove_watch_unlocked(S, path) ==
    IF path \notin DOMAIN S.t THEN [S EXCEPT !.raised = "KeyError"]
    ELSE LET wd == S.t[path]
             P == [S EXCEPT !.t = Drop(S.t, path)]
             N == inotify_rm_watch(P, wd)
             L == [N EXCEPT !.calls =
                     Append(S.calls,
                            Call("inotify_rm_watch", <<>>, wd, N.ret, N.errno))]
         IN  IF N.ret = -1 THEN raise_error(L) ELSE L

\* Inotify._remove_all_watches: the loop over self._wd_for_path.values(),
\* taken in the order wds; the first failing removal raises. (X names the
\* state the i-th removal leaves.)
RECURSIVE remove_all_watches(_, _, _)
remove_all_watches(S, wds, i) ==
    IF i > Len(wds) \/ S.raised # "" THEN S
    ELSE LET N == inotify_rm_watch(S, wds[i])
             L == [N EXCEPT !.calls =
                     Append(S.calls, Call("inotify_rm_watch", <<>>, wds[i],
                                          N.ret, N.errno))]
         IN  CHOOSE R \in {remove_all_watches(X, wds, i + 1) :
                              X \in {IF N.ret = -1 THEN raise_error(L) ELSE L}} :
                 TRUE

\* Inotify.close(): _remove_all_watches, then os.close, under the lock.
close(S, wds) ==
    LET R == remove_all_watches(S, wds, 1)
    IN  IF R.raised # "" THEN R ELSE os_close(R)

(* ------------------------------- actions ------------------------------- *)
\* What the last operation was: its name and argument, how it ended ("ok" or
\* the exception), the native calls it made, the events it yielded.
Op(op, arg, result, calls, out) ==
    [op |-> op, arg |-> arg, result |-> result, calls |-> calls, out |-> out]
\* The state a session method leaves behind.
Leave(S, op, arg) ==
    /\ fdState' = S.fd
    /\ wd_for_path' = S.t
    /\ kwatch' = S.kw
    /\ nextWd' = S.nw
    /\ kq' = S.q
    /\ lastOp' = Op(op, arg, IF S.raised = "" THEN "ok" ELSE S.raised, S.calls, <<>>)
    /\ error' = S.msg

\* Two trees for the runs that go on after construction, each with room
\* for one more entry: two directories under the root, and a symbolic link
\* to a directory next to a file.
DirTree ==
    [p \in Paths |-> IF p = PathC THEN "none" ELSE "dir"]
LinkTree ==
    [p \in Paths |->
        CASE p = Root -> "dir" [] p = PathA -> "link" [] p = PathB -> "file"
          [] OTHER -> "none"]
StartTrees == {DirTree, LinkTree}

\* Before Inotify(path, ...) is constructed.
Unconstructed ==
    /\ session = "none"
    /\ fdState = "none"
    /\ wd_for_path = EmptyTable
    /\ is_recursive = FALSE
    /\ is_non_blocking = FALSE
    /\ kwatch = EmptyTable
    /\ nextWd = 1
    /\ nextCookie = 1
    /\ kq = <<>>
    /\ outq = <<>>
    /\ fsOps = 0
    /\ lastOp = Op("none", <<>>, "ok", <<>>, <<>>)
    /\ error = ""
    /\ lock = "free"
    /\ pc = [t \in Threads |-> Idle]

Init == fs \in StartTrees /\ Unconstructed
InitAnyTree == fs \in Trees /\ Unconstructed

\* Inotify.__init__(path, recursive, event_mask, non_blocking)
Inotify__init__ ==
    /\ session = "none"
    /\ \E raw \in {Root, Append(Root, Dot)}, recursive \in BOOLEAN,
          non_blocking \in BOOLEAN, openFails \in BOOLEAN,
          failAt \in 0..Cardinality(Paths) :
          /\ is_recursive' = recursive
          /\ is_non_blocking' = non_blocking
          /\ LET N == inotify_init(Cur, openFails)
                 L == [N EXCEPT !.calls =
                          <<Call("inotify_init", <<>>, 0, N.ret, N.errno)>>]
                 S == IF N.ret = -1 THEN raise_error(L)
                      ELSE add_dir_watch(L, absolute_path(raw), recursive,
                                         failAt)
             IN  /\ session' = IF S.raised = "" THEN "live" ELSE "failed"
                 /\ Leave(S, "__init__", absolute_path(raw))
    /\ UNCHANGED <<fs, nextCookie, fsOps, outq, lock, pc>>

\* Inotify.add_watch(path)
add_watch ==
    /\ session = "live"
    /\ \E raw \in RawPaths :
          Leave(add_watch_unlocked(Cur, absolute_path(raw), FALSE),
                "add_watch", absolute_path(raw))
    /\ UNCHANGED <<fs, session, is_recursive, is_non_blocking, nextCookie,
                   fsOps, outq, lock, pc>>

\* Inotify.remove_watch(path)
remove_watch ==
    /\ session = "live"
    /\ \E raw \in RawPaths :
          Leave(remove_watch_unlocked(Cur, absolute_path(raw)),
                "remove_watch", absolute_path(raw))
    /\ UNCHANGED <<fs, session, is_recursive, is_non_blocking, nextCookie,
                   fsOps, outq, lock, pc>>

\* The orders in which a dict may list its values.
ValueOrders(t) ==
    {[i \in 1..Cardinality(DOMAIN t) |-> t[o[i]]] : o \in Perms(DOMAIN t)}

\* Inotify.close(), called by the owner of the session.
close_session ==
    /\ session = "live"
    /\ \E wds \in ValueOrders(wd_for_path) :
          Leave(close(Cur, wds), "close", <<>>)
    /\ UNCHANGED <<fs, session, is_recursive, is_non_blocking, nextCookie,
                   fsOps, outq, lock, pc>>

\* InotifyEmitter.on_thread_exit(): self._inotify.close()
on_thread_exit ==
    /\ session = "live"
    /\ \E wds \in ValueOrders(wd_for_path) :
          Leave(close(Cur, wds), "on_thread_exit", <<>>)
    /\ UNCHANGED <<fs, session, is_recursive, is_non_blocking, nextCookie,
                   fsOps, outq, lock, pc>>

\* Inotify.read_events(), iterated to its end: one os.read of everything
\* queued, decoded by _parse_event_buffer. A blocking read of an empty queue
\* waits; a non-blocking one raises OSError (EAGAIN).
read_events ==
    /\ session = "live"
    /\ \/ /\ fdState = "open" /\ kq # <<>>
          /\ kq' = <<>>
          /\ lastOp' = Op("read_events", <<>>, "ok",
                          <<Call("os.read", <<>>, 0, Len(EncodeBuffer(kq)), 0)>>,
                          parse_event_buffer(EncodeBuffer(kq)))
          /\ error' = ""
       \/ /\ \/ fdState = "open" /\ kq = <<>> /\ is_non_blocking
             \/ fdState = "closed"
          /\ LET e == IF fdState = "closed" THEN EBADF ELSE EAGAIN
             IN  /\ lastOp' = Op("read_events", <<>>, "OSError",
                                 <<Call("os.read", <<>>, 0, -1, e)>>, <<>>)
                 /\ error' = strerror(e)
          /\ UNCHANGED kq
    /\ UNCHANGED <<fs, session, fdState, wd_for_path, is_recursive,
                   is_non_blocking, kwatch, nextWd, nextCookie, fsOps, outq,
                   lock, pc>>

\* InotifyEmitter.queue_events(timeout): the only statement evaluates the
\* undefined name event_buffer_size (NameError); were it defined, the call
\* would only create the generator: nothing is read, nothing is queued.
queue_events ==
    /\ session = "live"
    /\ lastOp' = Op("queue_events", <<>>, "NameError", <<>>, <<>>)
    /\ error' = "name 'event_buffer_size' is not defined"
    /\ UNCHANGED <<fs, session, fdState, wd_for_path, is_recursive,
                   is_non_blocking, kwatch, nextWd, nextCookie, fsOps, kq,
                   outq, lock, pc>>

(* ----------------------------- environment ----------------------------- *)
HasChild(f, p) == \E c \in Paths : c # Root /\ Parent(c) = p /\ f[c] # "none"

\* mkdir p: IN_CREATE | IN_ISDIR for the watch on the parent.
Mkdir ==
    /\ session = "live" /\ fsOps < MaxFsOps
    /\ \E p \in Paths \ {Root} :
          /\ fs[p] = "none" /\ isdir(fs, Parent(p))
          /\ fs' = [fs EXCEPT ![p] = "dir"]
          /\ kq' = Notify(kq, kwatch, Parent(p), IN_CREATE + IN_ISDIR, 0,
                          BaseName(p))
          /\ lastOp' = Op("mkdir", <<>>, "ok", <<>>, <<>>)
          /\ error' = ""
    /\ fsOps' = fsOps + 1
    /\ UNCHANGED <<session, fdState, wd_for_path, is_recursive,
                   is_non_blocking, kwatch, nextWd, nextCookie, outq,
                   lock, pc>>

\* rmdir p: IN_DELETE | IN_ISDIR for the watch on the parent; the watch on
\* p itself gets IN_DELETE_SELF, then IN_IGNORED, and is gone.
Rmdir ==
    /\ session = "live" /\ fsOps < MaxFsOps
    /\ \E p \in Paths :
          /\ fs[p] = "dir" /\ ~HasChild(fs, p)
          /\ fs' = [fs EXCEPT ![p] = "none"]
          /\ LET q1 == IF p = Root THEN kq
                       ELSE Notify(kq, kwatch, Parent(p),
                                   IN_DELETE + IN_ISDIR, 0, BaseName(p))
                 q2 == Notify(q1, kwatch, p, IN_DELETE_SELF, 0, <<>>)
                 q3 == Notify(q2, kwatch, p, IN_IGNORED, 0, <<>>)
             IN  kq' = q3
          /\ kwatch' = IF p \in DOMAIN kwatch THEN Drop(kwatch, p) ELSE kwatch
          /\ lastOp' = Op("rmdir", <<>>, "ok", <<>>, <<>>)
          /\ error' = ""
    /\ fsOps' = fsOps + 1
    /\ UNCHANGED <<session, fdState, wd_for_path, is_recursive,
                   is_non_blocking, nextWd, nextCookie, outq, lock, pc>>

\* rename p -> q of a file: IN_MOVED_FROM and IN_MOVED_TO with one fresh
\* cookie, each for the watch on its parent.
Rename ==
    /\ session = "live" /\ fsOps < MaxFsOps
    /\ \E p, q \in Paths \ {Root} :
          /\ fs[p] = "file" /\ fs[q] = "none" /\ isdir(fs, Parent(q))
          /\ fs' = [fs EXCEPT ![p] = "none", ![q] = "file"]
          /\ kq' = Notify(Notify(kq, kwatch, Parent(p), IN_MOVED_FROM,
                                 nextCookie, BaseName(p)),
                          kwatch, Parent(q), IN_MOVED_TO, nextCookie,
                          BaseName(q))
          /\ lastOp' = Op("rename", <<>>, "ok", <<>>, <<>>)
          /\ error' = ""
    /\ nextCookie' = nextCookie + 1
    /\ fsOps' = fsOps + 1
    /\ UNCHANGED <<session, fdState, wd_for_path, is_recursive,
                   is_non_blocking, kwatch, nextWd, outq, lock, pc>>

Next ==
    \/ Inotify__init__
    \/ add_watch
    \/ remove_watch
    \/ close_session
    \/ on_thread_exit
    \/ read_events
    \/ queue_events
    \/ Mkdir
    \/ Rmdir
    \/ Rename

Spec == Init /\ [][Next]_vars

\* Construction alone, on every tree.
NextInit == Inotify__init__
SpecInit == InitAnyTree /\ [][NextInit]_vars

\* The session's table operations, with the kernel dropping the watches of
\* removed directories.
NextTable ==
    \/ Inotify__init__
    \/ add_watch
    \/ remove_watch
    \/ close_session
    \/ Rmdir
SpecTable == Init /\ [][NextTable]_vars

\* The codec alone: a session whose descriptor holds synthetic records, as
\* the kernel lays them out, read back with read_events.
SyntheticRecords ==
    {Record(wd, mask, cookie, name) :
        wd \in {-1, 1}, mask \in {IN_CREATE + IN_ISDIR, IN_IGNORED},
        cookie \in {0, 7}, name \in {<<>>, NameA, NameA \o NameB}}
SeqsUpTo(S, n) == UNION {[1..k -> S] : k \in 0..n}
InitCodec ==
    /\ fs = DirTree
    /\ session = "live"
    /\ fdState = "open"
    /\ wd_for_path = EmptyTable
    /\ is_recursive = FALSE
    /\ is_non_blocking \in BOOLEAN
    /\ kwatch = EmptyTable
    /\ nextWd = 1
    /\ nextCookie = 1
    /\ fsOps = 0
    /\ kq \in SeqsUpTo(SyntheticRecords, MaxRecords)
    /\ outq = <<>>
    /\ lastOp = Op("none", <<>>, "ok", <<>>, <<>>)
    /\ error = ""
    /\ lock = "free"
    /\ pc = [t \in Threads |-> Idle]
NextCodec == read_events
SpecCodec == InitCodec /\ [][NextCodec]_vars

(* ------------------------------- threads ------------------------------- *)
\* The session's methods as two threads run them, a step at a time: the
\* call, `with self._lock:`, the body with the release of the lock at its
\* end (by return or by exception), and the os.read of read_events, which
\* a thread enters and leaves in separate steps.
ThreadArgs == {Root, Append(PathA, Dot)}
At(t, at) == pc[t].at = at
Goto(t, at, arg, calls) ==
    pc' = [pc EXCEPT ![t] = [at |-> at, arg |-> arg, calls |-> calls]]

\* `with self._lock:` mutated: the body is entered without the lock.
acquire_nothing(t) == lock' = lock
\* `with self._lock:` on entry: threading.Lock.acquire()
acquire(t) == lock = "free" /\ lock' = t
\* `with self._lock:` mutated into acquire(); body; release(): an exception
\* in the body leaves the lock held.
release_unless_raised(t) ==
    lock' = IF lastOp'.result = "ok" THEN "free" ELSE lock
\* `with self._lock:` on exit, by return or by exception: Lock.release()
release(t) == lock' = "free"

\* A thread calls add_watch(path), remove_watch(path) or close().
call_method(t) ==
    /\ session = "live" /\ pc[t] = Idle
    /\ \/ \E m \in {"add_watch", "remove_watch"}, raw \in ThreadArgs :
             Goto(t, m, raw, <<>>)
       \/ Goto(t, "close", <<>>, <<>>)
    /\ UNCHANGED <<fs, session, fdState, wd_for_path, is_recursive,
                   is_non_blocking, kwatch, nextWd, nextCookie, fsOps, kq,
                   outq, lastOp, error, lock>>

\* The thread gets the lock.
enter_with(t) ==
    /\ pc[t].at \in {"add_watch", "remove_watch", "close"}
    /\ acquire(t)
    /\ Goto(t, pc[t].at \o "_locked", pc[t].arg, <<>>)
    /\ UNCHANGED <<fs, session, fdState, wd_for_path, is_recursive,
                   is_non_blocking, kwatch, nextWd, nextCookie, fsOps, kq,
                   outq, lastOp, error>>

\* The body of add_watch, and the end of its with block.
add_watch_body(t) ==
    /\ At(t, "add_watch_locked")
    /\ Leave(add_watch_unlocked(Cur, absolute_path(pc[t].arg), FALSE),
             "add_watch", absolute_path(pc[t].arg))
    /\ release(t)
    /\ pc' = [pc EXCEPT ![t] = Idle]
    /\ UNCHANGED <<fs, session, is_recursive, is_non_blocking, nextCookie,
                   fsOps, outq>>

\* The body of remove_watch, and the end of its with block.
remove_watch_body(t) ==
    /\ At(t, "remove_watch_locked")
    /\ Leave(remove_watch_unlocked(Cur, absolute_path(pc[t].arg)),
             "remove_watch", absolute_path(pc[t].arg))
    /\ release(t)
    /\ pc' = [pc EXCEPT ![t] = Idle]
    /\ UNCHANGED <<fs, session, is_recursive, is_non_blocking, nextCookie,
                   fsOps, outq>>

\* close(): self._remove_all_watches(); an exception ends the with block.
close_remove_all(t) ==
    /\ At(t, "close_locked")
    /\ \E wds \in ValueOrders(wd_for_path) :
          LET R == remove_all_watches(Cur, wds, 1)
          IN  IF R.raised # ""
              THEN /\ Leave(R, "close", <<>>)
                   /\ release(t)
                   /\ pc' = [pc EXCEPT ![t] = Idle]
              ELSE /\ kwatch' = R.kw /\ kq' = R.q
                   /\ Goto(t, "close_fd", <<>>, R.calls)
                   /\ UNCHANGED <<fdState, wd_for_path, nextWd, lastOp,
                                  error, lock>>
    /\ UNCHANGED <<fs, session, is_recursive, is_non_blocking, nextCookie,
                   fsOps, outq>>

\* close(): os.close(self._inotify_fd), and the end of the with block.
close_fd(t) ==
    /\ At(t, "close_fd")
    /\ Leave(os_close([Cur EXCEPT !.calls = pc[t].calls]), "close", <<>>)
    /\ release(t)
    /\ pc' = [pc EXCEPT ![t] = Idle]
    /\ UNCHANGED <<fs, session, is_recursive, is_non_blocking, nextCookie,
                   fsOps, outq>>

\* read_events mutated: the os.read is made under `with self._lock:`.
read_enter_locked(t) ==
    /\ session = "live" /\ pc[t] = Idle /\ fdState = "open"
    /\ acquire(t)
    /\ Goto(t, "read", <<>>, <<>>)
    /\ UNCHANGED <<lastOp, error>>

\* read_events(): the thread enters os.read(self._inotify_fd, ...); on a
\* closed descriptor the call fails at once (EBADF).
read_enter(t) ==
    /\ session = "live" /\ pc[t] = Idle
    /\ IF fdState = "open"
       THEN /\ Goto(t, "read", <<>>, <<>>)
            /\ UNCHANGED <<lastOp, error>>
       ELSE /\ lastOp' = Op("read_events", <<>>, "OSError",
                            <<Call("os.read", <<>>, 0, -1, EBADF)>>, <<>>)
            /\ error' = strerror(EBADF)
            /\ UNCHANGED pc
    /\ UNCHANGED lock

\* A thread starts to iterate read_events().
read_call(t) ==
    /\ read_enter(t)
    /\ UNCHANGED <<fs, session, fdState, wd_for_path, is_recursive,
                   is_non_blocking, kwatch, nextWd, nextCookie, fsOps, kq,
                   outq>>

\* os.read returns: with the queued records, which the thread decodes, or,
\* on a non-blocking descriptor with nothing queued, with EAGAIN. A
\* blocking read of an empty queue stays blocked, also when the descriptor
\* is closed by another thread meanwhile.
read_return(t) ==
    /\ At(t, "read")
    /\ \/ /\ kq # <<>>
          /\ kq' = <<>>
          /\ \E b \in {EncodeBuffer(kq)} :
                lastOp' = Op("read_events", <<>>, "ok",
                             <<Call("os.read", <<>>, 0, Len(b), 0)>>,
                             parse_event_buffer(b))
          /\ error' = ""
       \/ /\ kq = <<>> /\ is_non_blocking
          /\ LET e == IF fdState = "closed" THEN EBADF ELSE EAGAIN
             IN  /\ lastOp' = Op("read_events", <<>>, "OSError",
                                 <<Call("os.read", <<>>, 0, -1, e)>>, <<>>)
                 /\ error' = strerror(e)
          /\ UNCHANGED kq
    /\ pc' = [pc EXCEPT ![t] = Idle]
    /\ UNCHANGED <<fs, session, fdState, wd_for_path, is_recursive,
                   is_non_blocking, kwatch, nextWd, nextCookie, fsOps, outq,
                   lock>>

\* A step of thread t after it has called a method.
Progress(t) ==
    \/ enter_with(t)
    \/ add_watch_body(t)
    \/ remove_watch_body(t)
    \/ close_remove_all(t)
    \/ close_fd(t)
    \/ read_return(t)

NextThreads ==
    \/ Inotify__init__
    \/ \E t \in Threads : call_method(t)
    \/ \E t \in Threads : read_call(t)
    \/ \E t \in Threads : Progress(t)

InitThreads == fs = DirTree /\ Unconstructed

\* The locked methods alone, called by both threads.
Waiting(t) == pc[t].at \in {"add_watch", "remove_watch", "close"}
LockSteps(t) ==
    \/ enter_with(t)
    \/ add_watch_body(t)
    \/ remove_watch_body(t)
    \/ close_remove_all(t)
    \/ close_fd(t)
NextLock ==
    \/ Inotify__init__
    \/ \E t \in Threads : call_method(t)
    \/ \E t \in Threads : LockSteps(t)
SpecLock == InitThreads /\ [][NextLock]_vars
SpecThreads == InitThreads /\ [][NextThreads]_vars
\* A stop against the emitter's loop: the controlling thread calls the
\* methods, close() among them, and the emitter's thread iterates
\* read_events().
NextStop ==
    \/ Inotify__init__
    \/ call_method("controller")
    \/ Progress("controller")
    \/ read_call("emitter")
    \/ read_return("emitter")
SpecStop == InitThreads /\ [][NextStop]_vars
\* A thread that can take the next step of the method it is in gets to
\* take it; nothing obliges a thread to call a method.
FairStop ==
    /\ SpecStop
    /\ WF_vars(Progress("controller"))
    /\ WF_vars(read_return("emitter"))

(* ------------------------------- claims -------------------------------- *)
RmCalls(calls) ==
    {calls[i].wd : i \in {j \in 1..Len(calls) : calls[j].fn = "inotify_rm_watch"}}
ClosesFd(calls) == \E i \in 1..Len(calls) : calls[i].fn = "os.close"

\* C1: a close() of an open session attempts the native removal of every
\* handle of the table, whichever removals fail, and then closes the
\* session descriptor.
C1_BulkRemovalAttemptsAll ==
    [][(lastOp'.op = "close" /\ fdState = "open")
          => /\ Range(wd_for_path) \subseteq RmCalls(lastOp'.calls)
             /\ ClosesFd(lastOp'.calls)
             /\ fdState' = "closed"]_vars

\* C2: the watch table and the kernel's watches agree: the handles of the
\* table are exactly the live handles, and no two paths share a handle.
C2_TableAgreesWithNative ==
    session = "live" =>
        /\ Range(wd_for_path) = Range(kwatch)
        /\ \A p, q \in DOMAIN wd_for_path :
              wd_for_path[p] = wd_for_path[q] => p = q

\* C3: remove_watch(p) with p in the table removes exactly the entry of p
\* and leaves the others as they were; with p not in the table it raises
\* KeyError (a LookupError), makes no native call and leaves the table as
\* it was.
C3_RemoveWatchFrame ==
    [][lastOp'.op = "remove_watch"
          => IF lastOp'.arg \in DOMAIN wd_for_path
             THEN wd_for_path' = Drop(wd_for_path, lastOp'.arg)
             ELSE /\ lastOp'.result = "KeyError"
                  /\ lastOp'.calls = <<>>
                  /\ wd_for_path' = wd_for_path]_vars
\* remove_watch has removed one entry of several, natively too.
C3_Witness ==
    /\ lastOp.op = "remove_watch" /\ lastOp.result = "ok"
    /\ lastOp.arg \notin DOMAIN wd_for_path
    /\ Cardinality(DOMAIN wd_for_path) >= 2

\* The directories under root found without os.walk: the paths that are
\* directories (or links to one) and are reached from root through real
\* directories only.
DirsOfTree(f, root) ==
    {p \in Paths :
        /\ isdir(f, p)
        /\ Len(p) >= Len(root) /\ SubSeq(p, 1, Len(root)) = root
        /\ \A k \in (Len(root) + 1)..(Len(p) - 1) : f[SubSeq(p, 1, k)] = "dir"}

C5_CodecRoundTrip ==
    [][(lastOp'.op = "read_events" /\ lastOp'.result = "ok")
          => lastOp'.out = kq]_vars

\* The pairs of a batch: a moved-from and a moved-to record with the same
\* non-zero cookie.
MovePairs(q) ==
    {ij \in (1..Len(q)) \X (1..Len(q)) :
        /\ HasFlag(q[ij[1]].mask, IN_MOVED_FROM)
        /\ HasFlag(q[ij[2]].mask, IN_MOVED_TO)
        /\ q[ij[1]].cookie = q[ij[2]].cookie /\ q[ij[1]].cookie # 0}
PathOfWd(t, wd) == CHOOSE p \in DOMAIN t : t[p] = wd
EventPath(t, r) == Append(PathOfWd(t, r.wd), r.name)
\* What queue_events has pushed in a step.
Pushed == SubSeq(outq', Len(outq) + 1, Len(outq'))
Count(q, e) == Cardinality({i \in 1..Len(q) : q[i] = e})

\* C6: when queue_events runs on a batch holding a moved-from and a
\* moved-to record with the same non-zero cookie, it pushes exactly one
\* Moved event with the source and the destination path, and no MovedFrom
\* or MovedTo event of its own for either.
C6_RenamePairYieldsOneMoved ==
    [][(lastOp'.op = "queue_events" /\ MovePairs(kq) # {})
          => \A ij \in MovePairs(kq) :
                LET src == EventPath(wd_for_path, kq[ij[1]])
                    dest == EventPath(wd_for_path, kq[ij[2]])
                IN  /\ Count(Pushed, [type |-> "Moved", src |-> src,
                                      dest |-> dest]) = 1
                    /\ \A i \in 1..Len(Pushed) :
                          Pushed[i].type \notin {"MovedFrom", "MovedTo"}]_vars

\* The records of a batch that report a new subdirectory of a watched
\* directory.
NewDirs(q, t) ==
    {EventPath(t, q[i]) :
        i \in {j \in 1..Len(q) :
                 /\ HasFlag(q[j].mask, IN_CREATE) /\ HasFlag(q[j].mask, IN_ISDIR)
                 /\ q[j].wd \in Range(t)}}

\* C7: in recursive mode, when queue_events has processed a record that
\* reports a new subdirectory, the table holds a watch for that
\* subdirectory (it is added before the Created event is pushed).
C7_NewSubdirWatchedBeforeEmit ==
    [][(lastOp'.op = "queue_events" /\ is_recursive)
          => NewDirs(kq, wd_for_path) \subseteq DOMAIN wd_for_path']_vars

\* The handles a batch reports as gone: IN_IGNORED, or IN_DELETE_SELF of a
\* watched directory.
GoneHandles(q) ==
    {q[i].wd :
        i \in {j \in 1..Len(q) :
                 HasFlag(q[j].mask, IN_IGNORED)
                 \/ HasFlag(q[j].mask, IN_DELETE_SELF)}}

\* C8: once queue_events has processed a record that reports a handle as
\* ignored, or a watched directory as deleted, no entry of the table holds
\* that handle.
C8_InvalidatedHandleDropped ==
    [][lastOp'.op = "queue_events"
          => GoneHandles(kq) \cap Range(wd_for_path') = {}]_vars

\* C9: every stop of the emitter ends without error and with the
\* resources released (no live watch, descriptor closed), and a stop after
\* the descriptor is released makes no native call.
C9_StopIdempotent ==
    [][lastOp'.op = "on_thread_exit"
          => /\ lastOp'.result = "ok"
             /\ fdState' = "closed" /\ kwatch' = EmptyTable
             /\ (fdState = "closed" => lastOp'.calls = <<>>)]_vars

\* C10: a close() of a session that is closed already makes no native
\* call: no remove-watch for the released handles, no second close of the
\* descriptor number.
C10_SecondCloseGuarded ==
    [][(lastOp'.op = "close" /\ fdState = "closed")
          => lastOp'.calls = <<>>]_vars

\* C11: when the native read of the emitter's loop fails for another
\* reason than "no data yet" (here: EBADF, the descriptor is closed), the
\* step of the loop ends with that error for the dispatcher to see and
\* with the session closed: the read was made, its OSError is the outcome,
\* no watch is left.
C11_ReadFailureStopsEmitter ==
    [][(lastOp'.op = "queue_events" /\ fdState = "closed")
          => /\ \E i \in 1..Len(lastOp'.calls) :
                   lastOp'.calls[i].fn = "os.read" /\ lastOp'.calls[i].ret = -1
             /\ lastOp'.result = "OSError"
             /\ error' = strerror(EBADF)
             /\ fdState' = "closed" /\ kwatch' = EmptyTable]_vars

\* A thread has called close() and is not through with it.
Closing(u) == pc[u].at \in {"close", "close_locked", "close_fd"}

\* C12: when close() is called while the emitter's thread is inside the
\* native read, that read returns and in the end the reader is out of the read,
\* the descriptor is closed and no watch is left in the kernel.
C12_StopUnblocksRead ==
    (At("emitter", "read") /\ Closing("controller"))
        ~> (~At("emitter", "read") /\ fdState = "closed"
            /\ kwatch = EmptyTable)

FailedCalls(calls) ==
    {i \in 1..Len(calls) :
        /\ calls[i].fn \in {"inotify_init", "inotify_add_watch",
                            "inotify_rm_watch"}
        /\ calls[i].ret = -1}

\* C13: a native call (open, add watch, remove watch) that returns -1 is
\* the last thing its session method does: the method raises OSError with
\* the message of the errno the call left, and never returns normally.
C13_NativeFailureRaised ==
    [][\A i \in FailedCalls(lastOp'.calls) :
          /\ i = Len(lastOp'.calls)
          /\ lastOp'.result = "OSError"
          /\ lastOp'.calls[i].errno # 0
          /\ error' = strerror(lastOp'.calls[i].errno)]_vars
\* remove_watch has raised for a handle the kernel had dropped.
C13_Witness ==
    /\ lastOp.op = "remove_watch" /\ lastOp.result = "OSError"
    /\ FailedCalls(lastOp.calls) # {}
    /\ error = strerror(EINVAL)

\* C14: a directory watch asked for a path that is no directory fails at
\* once with an error, adds no entry to the table and makes no native
\* add-watch call; no watch exists in the kernel afterwards.
C14_NonDirectoryRejected ==
    (lastOp.op = "__init__" /\ ~isdir(fs, lastOp.arg))
        => /\ lastOp.result = "OSError"
           /\ wd_for_path = EmptyTable
           /\ kwatch = EmptyTable
           /\ \A i \in 1..Len(lastOp.calls) :
                 lastOp.calls[i].fn # "inotify_add_watch"
\* the session was opened and the root, a file, was refused.
C14_Witness ==
    /\ lastOp.op = "__init__" /\ fs[Root] = "file"
    /\ lastOp.result = "OSError" /\ error = "Path is not a directory"
    /\ Len(lastOp.calls) = 1

\* C15: decoding a buffer ends without error exactly when fewer than 16
\* bytes are left unread: a last record of exactly 16 bytes is decoded.
C15_DecodesWhileHeaderFits ==
    [][(lastOp'.op = "read_events" /\ lastOp'.result = "ok")
          => LET b == EncodeBuffer(kq)
             IN  Len(b) - parse_end(b, 0) < HeaderSize]_vars

\* A thread is inside the body of a with block.
InBody(t) ==
    pc[t].at \in {"add_watch_locked", "remove_watch_locked", "close_locked",
                  "close_fd"}

\* C16, as stated: every step that changes the watch table is taken by the
\* thread that holds the session lock.
C16_MutationsUnderLock ==
    [][wd_for_path' # wd_for_path
          => (lock \in Threads /\ pc'[lock] # pc[lock])]_vars

\* C16, amended: once the session is constructed, every step that changes
\* the watch table is taken by the thread that holds the session lock, and
\* no two threads are inside a with block at once.
C16_SharedMutationsUnderLock ==
    [][/\ (wd_for_path' # wd_for_path /\ session = "live")
              => (lock \in Threads /\ pc'[lock] # pc[lock] /\ InBody(lock))
       /\ \A t, u \in Threads : (InBody(t) /\ InBody(u)) => t = u]_vars
\* remove_watch has popped an entry while the other thread, which has
\* called add_watch, waits for the lock.
C16_Witness ==
    /\ lastOp.op = "remove_watch" /\ lastOp.result = "ok"
    /\ lock = "free"
    /\ \E u \in Threads : At(u, "add_watch")

\* C17: a thread inside the native read of read_events does not hold the
\* session lock.
C17_NoLockAcrossRead ==
    \A t \in Threads : At(t, "read") => lock # t
\* one thread is inside the read while the other, inside close(), holds
\* the lock.
C17_Witness ==
    \E t, u \in Threads :
        At(t, "read") /\ u # t /\ lock = u /\ At(u, "close_fd")

\* C21: the session lock is held only by a thread inside the with block of
\* add_watch, remove_watch or close, so it is free again when the call has
\* ended, by return or by exception; and a thread that waits for the lock
\* is never stuck: either the lock is free and it can take it, or the
\* holder can take its next step towards the end of its with block.
C21_LockReleased ==
    \A t \in Threads :
        /\ lock = t => InBody(t)
        /\ Waiting(t) => IF lock = "free" THEN ENABLED enter_with(t)
                         ELSE InBody(lock) /\ ENABLED LockSteps(lock)
\* a remove_watch has ended with a native failure (OSError), and after it
\* the other thread has got the lock.
C21_Witness ==
    /\ lastOp.op = "remove_watch" /\ lastOp.result = "OSError"
    /\ \E u \in Threads : lock = u /\ InBody(u)

\* C18: for the records a read has decoded, a == b exactly when handle,
\* mask, cookie and name are all equal, and a != b is the negation of
\* a == b.
C18_ComparisonConsistent ==
    \A i, j \in 1..Len(lastOp.out) :
        LET a == lastOp.out[i]
            b == lastOp.out[j]
        IN  /\ eq(a, b) <=> (a.wd = b.wd /\ a.mask = b.mask
                              /\ a.cookie = b.cookie /\ a.name = b.name)
            /\ ne(a, b) <=> ~eq(a, b)

\* C19: a construction that fails after the native session was opened
\* leaves neither the descriptor open nor a watch in the kernel.
C19_FailedConstructionReleases ==
    session = "failed" => (fdState # "open" /\ kwatch = EmptyTable)

\* C20: remove_watch(p) takes the entry of p out of the table exactly when
\* the native removal of its handle succeeds; when that fails the error is
\* raised and the table still maps p to its handle.
C20_RemoveWatchAtomic ==
    [][(lastOp'.op = "remove_watch" /\ lastOp'.arg \in DOMAIN wd_for_path)
          => IF lastOp'.result = "ok"
             THEN wd_for_path' = Drop(wd_for_path, lastOp'.arg)
             ELSE wd_for_path' = wd_for_path]_vars

====
